---- MODULE Spec2Model ----
(***************************************************************************)
(* Model of src/main.py: generate_free_windows and its helpers, and main.  *)
(*                                                                         *)
(* A time string is a sequence of one-character strings.  A datetime       *)
(* produced by strptime(..., '%H:%M') is 1900-01-01 HH:MM; it is modelled  *)
(* by its minute of the day, and a timedelta by a number of minutes.       *)
(* A busy record is a function whose domain holds the keys it has.         *)
(***************************************************************************)
EXTENDS Integers, Sequences, FiniteSets, TLC

VARIABLES
    start_time,             \* argument of generate_free_windows (string)
    end_time,               \* argument of generate_free_windows (string)
    busy_intervals,         \* argument: the caller's list of records
    pc,                     \* position in main / generate_free_windows
    start_time_format,      \* local, minutes
    end_time_format,        \* local, minutes
    busy_intervals_format,  \* local, list of <<start, stop>> in minutes
    free_windows,           \* local, list of window records
    current_start,          \* local, the cursor
    i,                      \* index of the next entry the for loop takes
    result,                 \* main's free_windows: the returned list
    exc,                    \* exception in flight: "none", "KeyError", "ValueError"
    stdout                  \* lines printed by main

vars == <<start_time, end_time, busy_intervals, pc, start_time_format,
          end_time_format, busy_intervals_format, free_windows,
          current_start, i, result, exc, stdout>>

-----------------------------------------------------------------------------
(* Bounds and inputs *)

MaxBusy == 3

SlotMinutes == 30

Digits == {"0", "1", "2", "3", "4", "5", "6", "7", "8", "9"}

DigitSeq == <<"0", "1", "2", "3", "4", "5", "6", "7", "8", "9">>

DigitVal(c) == (CHOOSE k \in 1..10 : DigitSeq[k] = c) - 1

\* 'Свободное окно', the value of 'type' in every emitted window
FreeWindowType == "FreeWindow"

START_TIME == <<"0", "9", ":", "0", "0">>

END_TIME == <<"2", "1", ":", "0", "0">>

BUSY ==
    << [start |-> <<"1", "0", ":", "3", "0">>, stop |-> <<"1", "0", ":", "5", "0">>],
       [start |-> <<"1", "8", ":", "4", "0">>, stop |-> <<"1", "8", ":", "5", "0">>],
       [start |-> <<"1", "4", ":", "4", "0">>, stop |-> <<"1", "5", ":", "5", "0">>],
       [start |-> <<"1", "6", ":", "4", "0">>, stop |-> <<"1", "7", ":", "2", "0">>],
       [start |-> <<"2", "0", ":", "0", "5">>, stop |-> <<"2", "0", ":", "2", "0">>] >>

\* (start_time, end_time) pairs tried besides the built-in day
DayPool ==
    { << <<"0", "9", ":", "0", "0">>, <<"1", "1", ":", "0", "0">> >>,
      << <<"9", ":", "0", "0">>,      <<"1", "1", ":", "0", "0">> >>,
      << <<"0", "9", ":", "0", "0">>, <<"1", "0", ":", "0", "0">> >>,
      << <<"0", "9", ":", "0", "0">>, <<"2", "5", ":", "0", "0">> >> }

\* busy records tried besides the built-in list
RecordPool ==
    { [start |-> <<"0", "9", ":", "0", "0">>, stop |-> <<"0", "9", ":", "3", "0">>],
      [start |-> <<"0", "9", ":", "2", "0">>, stop |-> <<"0", "9", ":", "4", "0">>],
      [start |-> <<"0", "9", ":", "3", "0">>, stop |-> <<"1", "0", ":", "0", "0">>],
      [start |-> <<"0", "9", ":", "3", "0">>, stop |-> <<"1", "0", ":", "4", "0">>],
      [start |-> <<"0", "9", ":", "5", "0">>, stop |-> <<"1", "0", ":", "0", "0">>],
      [start |-> <<"1", "0", ":", "1", "0">>, stop |-> <<"1", "0", ":", "1", "0">>],
      [start |-> <<"1", "1", ":", "4", "0">>, stop |-> <<"1", "1", ":", "5", "0">>],
      [start |-> <<"1", "0", ":", "3", "0">>, stop |-> <<"1", "0", ":", "0", "0">>],
      [start |-> <<"8", ":", "3", "0">>,      stop |-> <<"0", "9", ":", "1", "0">>],
      [start |-> <<"1", "0", ":", "0", "0">>, stop |-> <<"2", "5", ":", "0", "0">>],
      [start |-> <<"1", "0", ":", "0", "0">>],
      [stop  |-> <<"1", "0", ":", "0", "0">>] }

BusyLists == UNION { [1..n -> RecordPool] : n \in 0..MaxBusy }

-----------------------------------------------------------------------------
(* datetime.strptime(time_str, '%H:%M'): the format compiles to the regex   *)
(* (?P<H>2[0-3]|[0-1]\d|\d):(?P<M>[0-5]\d|\d), matched at the start of the  *)
(* string with ordered alternatives; text left after the match is an error. *)

\* lengths matched by the alternatives of %H, in the regex's order
HourAlternatives(s) ==
    (IF Len(s) >= 2 /\ s[1] = "2" /\ s[2] \in {"0", "1", "2", "3"}
        THEN <<2>> ELSE <<>>)
    \o (IF Len(s) >= 2 /\ s[1] \in {"0", "1"} /\ s[2] \in Digits
        THEN <<2>> ELSE <<>>)
    \o (IF Len(s) >= 1 /\ s[1] \in Digits THEN <<1>> ELSE <<>>)

\* lengths matched by the alternatives of %M, in the regex's order
MinuteAlternatives(s) ==
    (IF Len(s) >= 2 /\ s[1] \in {"0", "1", "2", "3", "4", "5"} /\ s[2] \in Digits
        THEN <<2>> ELSE <<>>)
    \o (IF Len(s) >= 1 /\ s[1] \in Digits THEN <<1>> ELSE <<>>)

Rest(s, n) == SubSeq(s, n + 1, Len(s))

\* the regex match: <<>> when there is none, else <<hour length, minute length>>
RegexMatch(s) ==
    LET hs == SelectSeq(HourAlternatives(s),
                 LAMBDA h : /\ Len(s) > h
                            /\ s[h + 1] = ":"
                            /\ MinuteAlternatives(Rest(s, h + 1)) # <<>>)
    IN  IF hs = <<>> THEN <<>>
        ELSE <<hs[1], MinuteAlternatives(Rest(s, hs[1] + 1))[1]>>

Number(s) ==
    IF Len(s) = 1 THEN DigitVal(s[1]) ELSE 10 * DigitVal(s[1]) + DigitVal(s[2])

\* strptime raises ValueError: no match, or unconverted data remains
StrptimeRaises(s) ==
    LET m == RegexMatch(s)
    IN  \/ m = <<>>
        \/ Len(s) # m[1] + 1 + m[2]

Strptime(s) ==
    LET m == RegexMatch(s)
    IN  60 * Number(SubSeq(s, 1, m[1]))
          + Number(SubSeq(s, m[1] + 2, m[1] + 1 + m[2]))

\* convert_to_datetime_format: the except clause re-raises ValueError
ConvertRaises(time_str) == StrptimeRaises(time_str)

convert_to_datetime_format(time_str) == Strptime(time_str)

-----------------------------------------------------------------------------
(* generate_busy_intervals *)

\* the exception the list comprehension raises on one record, "none" if none:
\* interval['start'] and its conversion are evaluated before interval['stop']
RecordExc(interval) ==
    IF "start" \notin DOMAIN interval THEN "KeyError"
    ELSE IF ConvertRaises(interval["start"]) THEN "ValueError"
    ELSE IF "stop" \notin DOMAIN interval THEN "KeyError"
    ELSE IF ConvertRaises(interval["stop"]) THEN "ValueError"
    ELSE "none"

\* the exception the comprehension raises: that of the first failing record
ComprehensionExc(intervals) ==
    LET bad == { k \in 1..Len(intervals) : RecordExc(intervals[k]) # "none" }
    IN  IF bad = {} THEN "none"
        ELSE RecordExc(intervals[CHOOSE k \in bad : \A l \in bad : k <= l])

\* the tuples the comprehension builds, in the order of the input
Comprehension(intervals) ==
    [ k \in 1..Len(intervals) |->
        << convert_to_datetime_format(intervals[k]["start"]),
           convert_to_datetime_format(intervals[k]["stop"]) >> ]

\* x placed after every entry of the sorted list s whose key is <= x's key
InsertByStart(s, x) ==
    LET p == Cardinality({ k \in 1..Len(s) : s[k][1] <= x[1] })
    IN  SubSeq(s, 1, p) \o <<x>> \o SubSeq(s, p + 1, Len(s))

RECURSIVE StableSort(_)
StableSort(s) ==
    IF s = <<>> THEN <<>>
    ELSE InsertByStart(StableSort(SubSeq(s, 1, Len(s) - 1)), s[Len(s)])

\* faulty variant: the list is left in the order given
sortedNotSorted(s) == s

\* sorted(..., key=lambda x: x[0]): a stable sort on the start time
sorted(s) == StableSort(s)

\* except KeyError: raise ValueError; any other exception passes through
GenerateBusyExc(intervals) ==
    IF ComprehensionExc(intervals) = "KeyError" THEN "ValueError"
    ELSE ComprehensionExc(intervals)

generate_busy_intervals(intervals) == sorted(Comprehension(intervals))

-----------------------------------------------------------------------------
(* generate_free_windows: the body of the for loop *)

time_difference(busy_start, cursor) == busy_start - cursor

\* faulty variant: > in place of >=
FitsWindowStrict(difference) == difference > SlotMinutes

\* time_difference >= timedelta(minutes=30)
FitsWindow(difference) == difference >= SlotMinutes

\* time_difference.total_seconds() // (30 * 60), then int()
max_windows(difference) == (difference * 60) \div (SlotMinutes * 60)

\* faulty variant: stop computed with j in place of j + 1
WindowZeroLength(cursor, j) ==
    [ start |-> cursor + SlotMinutes * j,
      stop  |-> cursor + SlotMinutes * j,
      type  |-> FreeWindowType ]

\* the dictionary the generator expression builds for j
Window(cursor, j) ==
    [ start |-> cursor + SlotMinutes * j,
      stop  |-> cursor + SlotMinutes * (j + 1),
      type  |-> FreeWindowType ]

\* what one iteration appends to free_windows (j runs over range(max_windows))
NewWindows(cursor, busy_start) ==
    IF FitsWindow(time_difference(busy_start, cursor))
    THEN [ k \in 1..max_windows(time_difference(busy_start, cursor)) |->
             Window(cursor, k - 1) ]
    ELSE <<>>

\* faulty variant: min in place of max
NextStartMin(cursor, busy_stop) == IF busy_stop < cursor THEN busy_stop ELSE cursor

\* faulty variant: the cursor is set to busy_stop without max
NextStartNoMax(cursor, busy_stop) == busy_stop

\* current_start = max(current_start, busy_stop)
NextStart(cursor, busy_stop) == IF busy_stop > cursor THEN busy_stop ELSE cursor

\* busy_intervals_format after insert(0, ...) and append(...)
WithSentinels(day_start, day_end, sorted_busy) ==
    << <<day_start, day_start>> >> \o sorted_busy \o << <<day_end, day_end>> >>

\* the whole for loop from entry k on, as a function of the list
RECURSIVE WalkFrom(_, _, _, _)
WalkFrom(list, k, cursor, windows) ==
    IF k > Len(list) THEN windows
    ELSE WalkFrom(list, k + 1, NextStart(cursor, list[k][2]),
                  windows \o NewWindows(cursor, list[k][1]))

\* the value generate_free_windows returns when nothing raises
GenerateFreeWindows(day_start, day_end, intervals) ==
    LET list == WithSentinels(convert_to_datetime_format(day_start),
                              convert_to_datetime_format(day_end),
                              generate_busy_intervals(intervals))
    IN  WalkFrom(list, 2, list[1][2], <<>>)

-----------------------------------------------------------------------------
(* print_intervals *)

\* strftime('%H:%M')
FormatHM(t) ==
    << DigitSeq[((t \div 60) \div 10) + 1], DigitSeq[((t \div 60) % 10) + 1], ":",
       DigitSeq[((t % 60) \div 10) + 1], DigitSeq[((t % 60) % 10) + 1] >>

\* one printed line: "<type>: HH:MM - HH:MM"
PrintedLine(interval) ==
    << interval.type, FormatHM(interval.start), FormatHM(interval.stop) >>

-----------------------------------------------------------------------------
(* The state machine: main calling generate_free_windows *)

Init ==
    /\ \/ /\ \E day \in DayPool : start_time = day[1] /\ end_time = day[2]
          /\ busy_intervals \in BusyLists
       \/ /\ start_time = START_TIME
          /\ end_time = END_TIME
          /\ busy_intervals = BUSY
    /\ pc = "convert_bounds"
    /\ start_time_format = 0
    /\ end_time_format = 0
    /\ busy_intervals_format = <<>>
    /\ free_windows = <<>>
    /\ current_start = 0
    /\ i = 0
    /\ result = <<>>
    /\ exc = "none"
    /\ stdout = <<>>

\* lines 93-94; a ValueError is caught at 123 and raised again at 124
ConvertBounds ==
    /\ pc = "convert_bounds"
    /\ IF ConvertRaises(start_time) \/ ConvertRaises(end_time)
       THEN /\ exc' = "ValueError"
            /\ pc' = "raised"
            /\ UNCHANGED <<start_time_format, end_time_format>>
       ELSE /\ start_time_format' = convert_to_datetime_format(start_time)
            /\ end_time_format' = convert_to_datetime_format(end_time)
            /\ pc' = "busy"
            /\ exc' = exc
    /\ UNCHANGED <<start_time, end_time, busy_intervals, busy_intervals_format,
                   free_windows, current_start, i, result, stdout>>

\* line 96; except ValueError at 123 raises ValueError, anything else passes
GenerateBusy ==
    /\ pc = "busy"
    /\ IF GenerateBusyExc(busy_intervals) # "none"
       THEN /\ exc' = GenerateBusyExc(busy_intervals)
            /\ pc' = "raised"
            /\ UNCHANGED busy_intervals_format
       ELSE /\ busy_intervals_format' = generate_busy_intervals(busy_intervals)
            /\ pc' = "sentinels"
            /\ exc' = exc
    /\ UNCHANGED <<start_time, end_time, busy_intervals, start_time_format,
                   end_time_format, free_windows, current_start, i, result, stdout>>

\* lines 98-105
AddSentinels ==
    /\ pc = "sentinels"
    /\ busy_intervals_format' =
           WithSentinels(start_time_format, end_time_format, busy_intervals_format)
    /\ free_windows' = <<>>
    /\ current_start' = busy_intervals_format'[1][2]
    /\ i' = 2
    /\ pc' = "walk"
    /\ UNCHANGED <<start_time, end_time, busy_intervals, start_time_format,
                   end_time_format, result, exc, stdout>>

\* lines 107-118: one iteration over busy_intervals_format[1:]
WalkStep ==
    /\ pc = "walk"
    /\ i <= Len(busy_intervals_format)
    /\ free_windows' =
           free_windows \o NewWindows(current_start, busy_intervals_format[i][1])
    /\ current_start' = NextStart(current_start, busy_intervals_format[i][2])
    /\ i' = i + 1
    /\ UNCHANGED <<start_time, end_time, busy_intervals, pc, start_time_format,
                   end_time_format, busy_intervals_format, result, exc, stdout>>

\* line 122, and the assignment at 153
Return ==
    /\ pc = "walk"
    /\ i > Len(busy_intervals_format)
    /\ result' = free_windows
    /\ pc' = "returned"
    /\ UNCHANGED <<start_time, end_time, busy_intervals, start_time_format,
                   end_time_format, busy_intervals_format, free_windows,
                   current_start, i, exc, stdout>>

\* lines 154-155
PrintIntervals ==
    /\ pc = "returned"
    /\ stdout' = [ k \in 1..Len(result) |-> PrintedLine(result[k]) ]
    /\ pc' = "done"
    /\ UNCHANGED <<start_time, end_time, busy_intervals, start_time_format,
                   end_time_format, busy_intervals_format, free_windows,
                   current_start, i, result, exc>>

\* lines 156-157: only a ValueError is caught
HandleError ==
    /\ pc = "raised"
    /\ IF exc = "ValueError"
       THEN /\ stdout' = << <<"Error", exc>> >>
            /\ pc' = "done"
       ELSE /\ stdout' = stdout
            /\ pc' = "crashed"
    /\ UNCHANGED <<start_time, end_time, busy_intervals, start_time_format,
                   end_time_format, busy_intervals_format, free_windows,
                   current_start, i, result, exc>>

Next ==
    \/ ConvertBounds
    \/ GenerateBusy
    \/ AddSentinels
    \/ WalkStep
    \/ Return
    \/ PrintIntervals
    \/ HandleError

Spec == Init /\ [][Next]_vars

-----------------------------------------------------------------------------
(* Vocabulary of the properties *)

\* 'Перерыв', the 'type' the docstring gives to a busy interval in the result
BusyType == "Break"

\* every record has both keys
AllFieldsPresent ==
    \A k \in 1..Len(busy_intervals) : {"start", "stop"} \subseteq DOMAIN busy_intervals[k]

\* the time strings of the input
InputStrings ==
    {start_time, end_time}
    \cup UNION { { busy_intervals[k][f] : f \in DOMAIN busy_intervals[k] } :
                 k \in 1..Len(busy_intervals) }

\* zero-padded HH:MM with the hour in 00..23 and the minute in 00..59
ZeroPaddedHHMM(s) ==
    /\ Len(s) = 5
    /\ s[3] = ":"
    /\ \A k \in {1, 2, 4, 5} : s[k] \in Digits
    /\ 10 * DigitVal(s[1]) + DigitVal(s[2]) <= 23
    /\ 10 * DigitVal(s[4]) + DigitVal(s[5]) <= 59

\* the input converts without an exception
InputConverts ==
    /\ ~ConvertRaises(start_time)
    /\ ~ConvertRaises(end_time)
    /\ ComprehensionExc(busy_intervals) = "none"

\* the busy intervals as times, in the order given
BusyTimes == Comprehension(busy_intervals)

\* every busy interval has start <= stop
BusyOrdered ==
    /\ InputConverts
    /\ \A k \in 1..Len(busy_intervals) : BusyTimes[k][1] <= BusyTimes[k][2]

\* dayStart < dayEnd
DayOrdered ==
    /\ InputConverts
    /\ convert_to_datetime_format(start_time) < convert_to_datetime_format(end_time)

\* two busy intervals share time
SomeOverlap ==
    \E k, l \in 1..Len(busy_intervals) :
        /\ k # l
        /\ BusyTimes[k][1] < BusyTimes[l][2]
        /\ BusyTimes[l][1] < BusyTimes[k][2]

\* a busy interval lies inside a longer one that starts no later
SomeNested ==
    \E k, l \in 1..Len(busy_intervals) :
        /\ BusyTimes[k][1] <= BusyTimes[l][1]
        /\ BusyTimes[l][2] < BusyTimes[k][2]

\* the list is not given in the order of the start times
GivenUnsorted ==
    \E k, l \in 1..Len(busy_intervals) :
        k < l /\ BusyTimes[k][1] > BusyTimes[l][1]

\* the windows the current step appends
AppendedFrom == Len(free_windows) + 1

IsFree(w) == w.type = FreeWindowType

BuiltIn ==
    start_time = START_TIME /\ end_time = END_TIME /\ busy_intervals = BUSY

-----------------------------------------------------------------------------
(* Properties *)

\* C1: for every input whose busy intervals have start <= stop, each busy
\* interval appears in the returned sequence exactly once (as often as it is
\* given), with its start and stop and the busy label, and nothing else that
\* is not a free window (so neither sentinel) appears.
C1_BusyEmittedOnce ==
    (pc = "returned" /\ BusyOrdered) =>
        /\ \A k \in 1..Len(busy_intervals) :
              Cardinality({ n \in 1..Len(result) :
                  result[n] = [start |-> BusyTimes[k][1],
                               stop  |-> BusyTimes[k][2],
                               type  |-> BusyType] })
              = Cardinality({ l \in 1..Len(busy_intervals) :
                                  BusyTimes[l] = BusyTimes[k] })
        /\ Cardinality({ n \in 1..Len(result) : ~IsFree(result[n]) })
              = Len(busy_intervals)

\* C2: for valid input (dayStart < dayEnd, every busy start <= stop, any
\* order, overlaps allowed) the returned sequence is sorted by start and each
\* entry stops no later than the next one starts.
C2_SortedNoOverlap ==
    (pc = "returned" /\ DayOrdered /\ BusyOrdered) =>
        \A n \in 1..(Len(result) - 1) :
            /\ result[n].start <= result[n + 1].start
            /\ result[n].stop <= result[n + 1].start

C2_Witness ==
    /\ pc = "returned"
    /\ DayOrdered
    /\ BusyOrdered
    /\ SomeOverlap
    /\ GivenUnsorted
    /\ Len(result) >= 2

\* C3: with every busy start <= stop, a window appended while an entry is
\* walked stops no later than that entry's start, and no window stops after
\* dayEnd.
C3_WindowsStopBeforeBusyAndDayEnd ==
    [][ (pc = "walk" /\ i <= Len(busy_intervals_format) /\ BusyOrdered) =>
          \A n \in AppendedFrom..Len(free_windows') :
              /\ free_windows'[n].stop <= busy_intervals_format[i][1]
              /\ free_windows'[n].stop <= end_time_format ]_vars

\* C4: with every busy start <= stop, in any order, overlapping or nested, no
\* free window shares time with the interior of a busy interval of the input.
C4_NoWindowInsideBusy ==
    (free_windows # <<>> /\ BusyOrdered) =>
        LET busy == BusyTimes
        IN  \A n \in 1..Len(free_windows) : \A k \in 1..Len(busy) :
                ~ /\ busy[k][1] < busy[k][2]
                  /\ free_windows[n].start < busy[k][2]
                  /\ busy[k][1] < free_windows[n].stop

C4_Witness ==
    /\ pc = "returned"
    /\ BusyOrdered
    /\ SomeNested
    /\ GivenUnsorted
    /\ Len(result) >= 1

\* C5: a step of the walk with gap = bStart - cursor appends floor(gap / 30)
\* windows when gap >= 30, the k-th being [cursor + 30k, cursor + 30(k+1)],
\* each starting where the one before stops, and appends nothing when
\* gap < 30; what was emitted before stays.
C5_StepEmitsFloorGapWindows ==
    [][ (pc = "walk" /\ i <= Len(busy_intervals_format)) =>
          LET gap == busy_intervals_format[i][1] - current_start
              n   == Len(free_windows') - Len(free_windows)
          IN  /\ SubSeq(free_windows', 1, Len(free_windows)) = free_windows
              /\ gap < 30 => n = 0
              /\ gap >= 30 =>
                    /\ n >= 1
                    /\ 30 * n <= gap
                    /\ gap < 30 * (n + 1)
                    /\ \A k \in 0..(n - 1) :
                          /\ free_windows'[Len(free_windows) + k + 1].start
                                = current_start + 30 * k
                          /\ free_windows'[Len(free_windows) + k + 1].stop
                                = current_start + 30 * (k + 1)
                    /\ \A k \in 1..(n - 1) :
                          free_windows'[Len(free_windows) + k + 1].start
                             = free_windows'[Len(free_windows) + k].stop ]_vars

\* the first busy interval starts exactly one slot after dayStart and the
\* step that walked it left exactly one window
C5_Witness ==
    /\ pc = "walk"
    /\ i = 3
    /\ busy_intervals_format[2][1] - busy_intervals_format[1][2] = 30
    /\ Len(free_windows) = 1

\* C6: every free window emitted lasts exactly the slot size, whatever the
\* input.
C6_WindowsLastOneSlot ==
    /\ \A n \in 1..Len(free_windows) :
          free_windows[n].stop - free_windows[n].start = SlotMinutes
    /\ \A n \in 1..Len(result) :
          IsFree(result[n]) => result[n].stop - result[n].start = SlotMinutes

C6_Witness ==
    /\ pc = "returned"
    /\ BusyOrdered
    /\ SomeOverlap
    /\ Len(result) >= 2

\* C7: a time string of the input that is not zero-padded HH:MM in range
\* makes generate_free_windows fail with a ValueError.
C7_MalformedFails ==
    (pc \in {"returned", "raised", "done", "crashed"}
       /\ \E s \in InputStrings : ~ZeroPaddedHHMM(s))
    => exc = "ValueError"

\* C8: a record without 'start' or 'stop', or a malformed time string, makes
\* generate_free_windows raise before any window is generated and return
\* nothing, and main prints a message and does not crash.
C8_BadInputRaisesEarly ==
    (~AllFieldsPresent \/ \E s \in InputStrings : ~ZeroPaddedHHMM(s)) =>
        /\ free_windows = <<>>
        /\ result = <<>>
        /\ pc \notin {"walk", "returned", "crashed"}
        /\ pc = "done" => (exc = "ValueError" /\ stdout = << <<"Error", "ValueError">> >>)

\* C9: with every busy start <= stop the returned sequence is the same for
\* every order of the busy list, and the caller's list is never changed.
C9_OrderIndependent ==
    /\ [] ( (pc = "returned" /\ BusyOrdered) =>
              \A p \in Permutations(1..Len(busy_intervals)) :
                  GenerateFreeWindows(start_time, end_time,
                      [ k \in 1..Len(busy_intervals) |-> busy_intervals[p[k]] ])
                  = result )
    /\ [][ busy_intervals' = busy_intervals ]_vars

C9_Witness ==
    /\ pc = "returned"
    /\ BusyOrdered
    /\ GivenUnsorted
    /\ \E k, l \in 1..Len(busy_intervals) :
          BusyTimes[k][1] = BusyTimes[l][1] /\ BusyTimes[k][2] # BusyTimes[l][2]
    /\ Len(result) >= 1

\* C10: for the built-in day and busy list the result starts with the free
\* window 09:00-09:30, holds a busy entry 10:30-10:50, and holds exactly the
\* seven free windows 10:50-11:20 .. 13:50-14:20 between 10:50 and 14:40.
C10_BuiltInScenario ==
    (pc = "returned" /\ BuiltIn) =>
        /\ result[1] = [start |-> 9 * 60, stop |-> 9 * 60 + 30, type |-> FreeWindowType]
        /\ \E n \in 1..Len(result) :
              result[n] = [start |-> 10 * 60 + 30, stop |-> 10 * 60 + 50, type |-> BusyType]
        /\ { result[n] : n \in { m \in 1..Len(result) :
                                   /\ IsFree(result[m])
                                   /\ result[m].stop > 10 * 60 + 50
                                   /\ result[m].start < 14 * 60 + 40 } }
             = { [start |-> 10 * 60 + 50 + 30 * k,
                  stop  |-> 10 * 60 + 50 + 30 * (k + 1),
                  type  |-> FreeWindowType] : k \in 0..6 }

====
